---- MODULE Spec2Model ----
(***************************************************************************)
(* A model of the task lifecycle client of supervisely/api/task_api.py:    *)
(* TaskApi.wait (status polling), TaskApi.upload_files (bulk upload with   *)
(* deduplication by content hash), TaskApi.update_status,                  *)
(* TaskApi.set_fields and TaskApi.start.                                   *)
(*                                                                         *)
(* One call runs at a time.  `op` is the method being executed, `pc` the   *)
(* position inside it, `result` how it ended, and `trace` the calls    *)
(* it has made so far to the outside (HTTP posts, file hashing, the        *)
(* progress callback), in order.                                           *)
(*                                                                         *)
(* Python's None is modelled by the empty set and a present value x by     *)
(* {x}, so that an Optional[int] can be compared without mixing types.     *)
(***************************************************************************)
EXTENDS Integers, Sequences, FiniteSets, TLC

VARIABLES
    op,                       \* method being executed, "idle" before the call
    pc,                       \* position inside the method
    result,                   \* [kind, value]: how the call ended
    trace,                    \* outside calls made by the call, in order
    call_args,                \* arguments of a call that runs in one step
    \* ---- TaskApi.wait ----
    target_status,            \* argument target_status (a Status member)
    wait_attempts_arg,        \* argument wait_attempts (Optional[int])
    wait_attempt_timeout_sec, \* argument wait_attempt_timeout_sec (Optional[int])
    wait_attempts,            \* local wait_attempts after line 293
    effective_wait_timeout,   \* local effective_wait_timeout after line 294
    attempt,                  \* loop variable of `for attempt in range(...)`
    status,                   \* status returned by the last get_status
    polls,                    \* number of get_status calls made
    sleeps,                   \* number of time.sleep calls completed
    slept,                    \* sum of the durations of these sleeps
    last_event,               \* "poll" or "sleep": the last of the two performed
    \* ---- TaskApi.upload_files ----
    abs_paths,                \* argument abs_paths
    names,                    \* argument names
    progress_cb,              \* TRUE when a progress_cb is given, FALSE for None
    hashes,                   \* local list hashes
    hash_to_name,             \* local defaultdict(list) hash_to_name
    remote_hashes,            \* list returned by check_existing_hashes
    files,                    \* local list files of the add-by-hash branch
    batch_no,                 \* number of batches the current loop has handled
    \* ---- TaskApi.deploy_custom_model ----
    deploy,                   \* its arguments, the answers it got and its locals
    \* ---- images import plugin: add_images_to_project ----
    plugin                    \* the listed files, the options and the locals

waitVars == << target_status, wait_attempts_arg, wait_attempt_timeout_sec,
               wait_attempts, effective_wait_timeout, attempt, status,
               polls, sleeps, slept, last_event >>

uploadVars == << abs_paths, names, progress_cb, hashes, hash_to_name,
                 remote_hashes, files, batch_no >>

deployVars == << deploy >>
pluginVars == << plugin >>

vars == << op, pc, result, trace, call_args, waitVars, uploadVars, deployVars,
          pluginVars >>

\* What the steps of wait, resp. of upload_files, never touch.
outsideWait == << trace, call_args, uploadVars, deployVars, pluginVars >>
outsideUpload == << call_args, waitVars, deployVars, pluginVars >>
outsideDeploy == << call_args, waitVars, uploadVars, pluginVars >>
outsidePlugin == << call_args, waitVars, uploadVars, deployVars >>
\* What a call that runs in one step leaves alone.
stepVars == << waitVars, uploadVars, deployVars, pluginVars >>

(***************************************************************************)
(* Bounds of the model.                                                    *)
(***************************************************************************)
\* Largest wait_attempts argument a caller passes.
MaxWaitAttemptsArg == 2
\* Largest wait_attempt_timeout_sec argument a caller passes.
MaxTimeoutArg == 2
\* Longest abs_paths and names lists a caller passes to upload_files.
MaxFiles == 3
\* batch_size of batched(); the model keeps it below MaxFiles so that a call
\* posts more than one batch.
BatchSize == 2
\* Longest fields list a caller passes to set_fields.
MaxFields == 2
\* Class attributes inherited from ModuleApiBase, which wait only reads
\* (self.MAX_WAIT_ATTEMPTS, self.WAIT_ATTEMPT_TIMEOUT_SEC); the model keeps
\* them small and different from the arguments above.
MAX_WAIT_ATTEMPTS == 3
WAIT_ATTEMPT_TIMEOUT_SEC == 1

(***************************************************************************)
(* Python values.                                                          *)
(***************************************************************************)
None == {}
Some(x) == {x}
Get(o) == CHOOSE x \in o : TRUE

\* Truth value of an Optional[int]: None and 0 are falsy.
Truthy(o) == o # None /\ o # Some(0)

\* Python's `a or b` for an Optional[int] a and an int b.
PyOr(o, default) == IF Truthy(o) THEN Get(o) ELSE default

Min(a, b) == IF a <= b THEN a ELSE b
Range(s) == { s[i] : i \in 1 .. Len(s) }
SeqsUpTo(S, n) == UNION { [1 .. k -> S] : k \in 0 .. n }

\* An outside call: a post of self._api, get_file_hash, check_existing_hashes
\* or progress_cb.
Post(method, data) == [kind |-> "post", arg |-> [method |-> method, data |-> data]]
Event(kind, arg) == [kind |-> kind, arg |-> arg]

\* How a call ended: a returned value or a raised exception; `detail` holds
\* what the exception message names, or the keys of a returned dict.
NoResult == [kind |-> "none", value |-> "none", detail |-> << >>]
Return(v) == [kind |-> "return", value |-> v, detail |-> << >>]
ReturnWith(v, d) == [kind |-> "return", value |-> v, detail |-> d]
Raise(e) == [kind |-> "raise", value |-> e, detail |-> << >>]
RaiseWith(e, d) == [kind |-> "raise", value |-> e, detail |-> d]

Terminated == pc = "done"

\* What call_args, deploy and plugin hold while no call has been made.
NoCall == [idle |-> TRUE]

(***************************************************************************)
(* TaskApi.Status: the members and their string values.                    *)
(***************************************************************************)
Status == { "QUEUED", "CONSUMED", "STARTED", "DEPLOYED",
            "ERROR", "FINISHED", "TERMINATING", "STOPPED" }

StatusValue(m) ==
    CASE m = "QUEUED" -> "queued"
      [] m = "CONSUMED" -> "consumed"
      [] m = "STARTED" -> "started"
      [] m = "DEPLOYED" -> "deployed"
      [] m = "ERROR" -> "error"
      [] m = "FINISHED" -> "finished"
      [] m = "TERMINATING" -> "terminating"
      [] m = "STOPPED" -> "stopped"

\* Status.values(): the string values of all members.
StatusValues == { StatusValue(m) : m \in Status }

\* Status(status_str): the member with that value (get_status, line 258).
StatusOf(s) == CHOOSE m \in Status : StatusValue(m) = s

\* get_status: the status string of the task info, converted to a member.
get_status(status_str) == StatusOf(status_str)

(***************************************************************************)
(* TaskApi.wait                                                            *)
(***************************************************************************)
\* raise_for_status raises exactly on the ERROR member.
raise_for_status(s) == s = "ERROR"

\* Mutant: TERMINATING is taken for a final status too.
StopStatusesWithTerminating(target) ==
    { target, "FINISHED", "DEPLOYED", "STOPPED", "TERMINATING" }

\* The list the polled status is looked up in (lines 298-303).
StopStatuses(target) == { target, "FINISHED", "DEPLOYED", "STOPPED" }

\* Mutant: the membership test comes before raise_for_status.
WaitOutcomeTargetFirst(s, target) ==
    IF s \in { target, "FINISHED", "DEPLOYED", "STOPPED" } THEN "return"
    ELSE IF s = "ERROR" THEN "raise"
    ELSE "sleep"

\* What one loop iteration does with the polled status: first
\* raise_for_status, then the membership test, else sleep.
WaitOutcome(s, target) ==
    IF raise_for_status(s) THEN "raise"
    ELSE IF s \in StopStatuses(target) THEN "return"
    ELSE "sleep"

\* Mutant: the loop runs once more than wait_attempts.
InRangeInclusive(i, n) == i <= n

\* `for attempt in range(wait_attempts)` has another iteration.
InRange(i, n) == i < n

\* time.sleep rejects a negative duration with ValueError.
SleepRaises(t) == t < 0

\* Mutant: the sleep grows with the attempt number.
SleepDurationBackoff(timeout, n) == timeout * (n + 1)

\* Line 304: what the sleep after attempt n lasts.
SleepDuration(timeout, n) == timeout

\* wait_attempts: None or an int; -1 stands for the negative ones.
WaitAttemptsArgs ==
    { None } \cup { Some(n) : n \in -1 .. MaxWaitAttemptsArg }
\* wait_attempt_timeout_sec: None or an int; -1 stands for the negative ones.
WaitTimeoutArgs ==
    { None } \cup { Some(n) : n \in -1 .. MaxTimeoutArg }

WaitCall ==
    /\ op = "idle"
    /\ \E t \in Status, wa \in WaitAttemptsArgs, wt \in WaitTimeoutArgs :
        /\ target_status' = t
        /\ wait_attempts_arg' = wa
        /\ wait_attempt_timeout_sec' = wt
        /\ wait_attempts' = PyOr(wa, MAX_WAIT_ATTEMPTS)
        /\ effective_wait_timeout' = PyOr(wt, WAIT_ATTEMPT_TIMEOUT_SEC)
    /\ op' = "wait"
    /\ pc' = "for"
    /\ attempt' = 0
    /\ UNCHANGED << result, status, polls, sleeps, slept, last_event, outsideWait >>

\* One iteration up to the sleep: get_status, raise_for_status, membership.
WaitPoll ==
    /\ op = "wait"
    /\ pc = "for"
    /\ InRange(attempt, wait_attempts)
    /\ \E status_str \in StatusValues :
        LET s == get_status(status_str) IN
        /\ status' = s
        /\ polls' = polls + 1
        /\ last_event' = "poll"
        /\ CASE WaitOutcome(s, target_status) = "raise" ->
                  /\ pc' = "done"
                  /\ result' = Raise("TaskFinishedWithError")
             [] WaitOutcome(s, target_status) = "return" ->
                  /\ pc' = "done"
                  /\ result' = Return("None")
             [] OTHER ->
                  /\ pc' = "sleep"
                  /\ result' = result
    /\ UNCHANGED << op, outsideWait, target_status, wait_attempts_arg,
                    wait_attempt_timeout_sec, wait_attempts,
                    effective_wait_timeout, attempt, sleeps, slept >>

\* time.sleep(effective_wait_timeout), then the next value of the range.
WaitSleep ==
    /\ op = "wait"
    /\ pc = "sleep"
    /\ IF SleepRaises(effective_wait_timeout)
       THEN /\ pc' = "done"
            /\ result' = Raise("ValueError")
            /\ UNCHANGED << attempt, sleeps, slept, last_event >>
       ELSE /\ pc' = "for"
            /\ attempt' = attempt + 1
            /\ sleeps' = sleeps + 1
            /\ slept' = slept + SleepDuration(effective_wait_timeout, attempt)
            /\ last_event' = "sleep"
            /\ result' = result
    /\ UNCHANGED << op, outsideWait, target_status, wait_attempts_arg,
                    wait_attempt_timeout_sec, wait_attempts,
                    effective_wait_timeout, status, polls >>

\* The range is exhausted: raise WaitingTimeExceeded.
WaitTimeout ==
    /\ op = "wait"
    /\ pc = "for"
    /\ ~ InRange(attempt, wait_attempts)
    /\ pc' = "done"
    /\ result' = Raise("WaitingTimeExceeded")
    /\ UNCHANGED << op, outsideWait, waitVars >>

WaitStep == WaitPoll \/ WaitSleep \/ WaitTimeout

(***************************************************************************)
(* TaskApi.upload_files                                                    *)
(***************************************************************************)
Paths == { "a", "b", "c" }
Names == { "n1", "n2" }

\* get_file_hash: the hash of the file's content; "a" and "b" hold the same
\* content, "c" another one.
get_file_hash(path) ==
    CASE path = "a" -> "h1"
      [] path = "b" -> "h1"
      [] path = "c" -> "h2"

Hashes == { get_file_hash(p) : p \in Paths }

\* batched(seq): the consecutive slices of batch_size items.
batched(seq) ==
    [ k \in 1 .. ((Len(seq) + BatchSize - 1) \div BatchSize) |->
        SubSeq(seq, (k - 1) * BatchSize + 1, Min(k * BatchSize, Len(seq))) ]

\* check_existing_hashes answers with the list of the hashes the server
\* stores, each once, in an order of its own; upload_files does not rely on
\* the answer being limited to the requested hashes (hash_to_name is a
\* defaultdict), so the model does not either.
ExistingHashesReplies(requested) ==
    { r \in SeqsUpTo(Hashes, Cardinality(Hashes)) :
        \A i, j \in 1 .. Len(r) : r[i] = r[j] => i = j }

\* Mutant: the lists may differ in length as long as names is not longer.
InconsistentOnlyIfShorter(paths, nms) == Len(paths) < Len(nms)

\* len(abs_paths) != len(names)
Inconsistent(paths, nms) == Len(paths) # Len(nms)

\* zip(...) stops with its shortest argument.
ZipLen(paths, nms) == Min(Len(paths), Len(nms))

\* Lines 696-699: for each remote hash, in order, an entry per name recorded
\* under that hash.
RECURSIVE FilesByHash(_, _)
FilesByHash(remote, h2n) ==
    IF remote = << >> THEN << >>
    ELSE [ i \in 1 .. Len(h2n[Head(remote)]) |->
             [name |-> h2n[Head(remote)][i], hash |-> Head(remote)] ]
         \o FilesByHash(Tail(remote), h2n)

\* Mutant: one item per hash is kept for the upload (the first one).
UploadItemsOnePerHash(paths, nms, hs) ==
    LET all == [ i \in 1 .. ZipLen(paths, nms) |->
                   [path |-> paths[i], name |-> nms[i], hash |-> hs[i]] ]
        RECURSIVE keep(_)
        keep(i) == IF i > Len(all) THEN << >>
                   ELSE IF \E j \in 1 .. (i - 1) : hs[j] = hs[i]
                        THEN keep(i + 1)
                        ELSE << all[i] >> \o keep(i + 1)
    IN keep(1)

\* list(zip(abs_paths, names, hashes))
UploadItems(paths, nms, hs) ==
    [ i \in 1 .. ZipLen(paths, nms) |->
        [path |-> paths[i], name |-> nms[i], hash |-> hs[i]] ]

\* Mutant: the test of line 712 is missing.
SkipNothing(hash, remote) == FALSE

\* Line 712: `if hash in remote_hashes: continue`
SkipItem(hash, remote) == hash \in Range(remote)

\* content_dict of one batch: for every item that is not skipped, the entry
\* "<idx>" (the JSON of fullpath and hash) and the entry "<idx>-file" (the
\* name and the opened file), idx counting from 0 inside the batch.
RECURSIVE ContentDictFrom(_, _, _)
ContentDictFrom(batch, remote, i) ==
    IF i > Len(batch) THEN << >>
    ELSE IF SkipItem(batch[i].hash, remote)
         THEN ContentDictFrom(batch, remote, i + 1)
         ELSE << [key |-> << i - 1, "" >>, name |-> batch[i].name,
                  content |-> batch[i].hash],
                 [key |-> << i - 1, "-file" >>, name |-> batch[i].name,
                  content |-> batch[i].path] >>
              \o ContentDictFrom(batch, remote, i + 1)

ContentDict(batch, remote) == ContentDictFrom(batch, remote, 1)

\* Mutant: the early return for an empty input is missing.
EmptyInputNeverReturns(paths) == FALSE

\* Line 678: `if len(abs_paths) == 0: return`
EmptyInput(paths) == Len(paths) = 0

UploadCall ==
    /\ op = "idle"
    /\ \E paths \in SeqsUpTo(Paths, MaxFiles), nms \in SeqsUpTo(Names, MaxFiles),
          cb \in BOOLEAN :
        /\ abs_paths' = paths
        /\ names' = nms
        /\ progress_cb' = cb
        /\ IF Inconsistent(paths, nms)
           THEN /\ pc' = "done"
                /\ result' = Raise("RuntimeError")
           ELSE IF EmptyInput(paths)
           THEN /\ pc' = "done"
                /\ result' = Return("None")
           ELSE /\ pc' = IF ZipLen(paths, nms) = 0 THEN "check" ELSE "hashing"
                /\ result' = result
    /\ op' = "upload_files"
    /\ UNCHANGED << trace, hashes, hash_to_name, remote_hashes, files, batch_no,
                    outsideUpload >>

\* One iteration of the loop of lines 683-688 (hash_to_items, which is
\* filled here too, is never read and is left out).
UploadHash ==
    /\ op = "upload_files"
    /\ pc = "hashing"
    /\ LET idx == Len(hashes) + 1
           item_hash == get_file_hash(abs_paths[idx])
       IN /\ trace' = Append(trace, Event("get_file_hash", abs_paths[idx]))
          /\ hashes' = Append(hashes, item_hash)
          /\ hash_to_name' = [hash_to_name EXCEPT
                                ![item_hash] = Append(@, names[idx])]
          /\ pc' = IF idx = ZipLen(abs_paths, names) THEN "check" ELSE "hashing"
    /\ UNCHANGED << op, result, abs_paths, names, progress_cb, remote_hashes,
                    files, batch_no, outsideUpload >>

\* Lines 690-699: the server is asked which of the hashes it stores, and the
\* entries of the add-by-hash requests are collected (new_hashes, computed
\* on line 692, is never read and is left out).
UploadCheck ==
    /\ op = "upload_files"
    /\ pc = "check"
    /\ LET unique_hashes == Range(hashes) IN
       \E reply \in ExistingHashesReplies(unique_hashes) :
        /\ trace' = Append(trace, Event("check_existing_hashes", unique_hashes))
        /\ remote_hashes' = reply
        /\ IF Len(reply) # 0
           THEN /\ files' = FilesByHash(reply, hash_to_name)
                /\ pc' = "add_by_hash"
           ELSE /\ files' = files
                /\ pc' = "progress"
    /\ batch_no' = 0
    /\ UNCHANGED << op, result, abs_paths, names, progress_cb, hashes,
                    hash_to_name, outsideUpload >>

\* One iteration of the loop of lines 700-704; the post may raise.
UploadAddByHash ==
    /\ op = "upload_files"
    /\ pc = "add_by_hash"
    /\ IF batch_no < Len(batched(files))
       THEN \E ok \in BOOLEAN :
              /\ trace' = Append(trace, Post("tasks.files.bulk.add-by-hash",
                                             [taskId |-> "task_id",
                                              files |-> batched(files)[batch_no + 1]]))
              /\ batch_no' = batch_no + 1
              /\ IF ok THEN /\ pc' = pc
                            /\ result' = result
                       ELSE /\ pc' = "done"
                            /\ result' = Raise("HTTPError")
       ELSE /\ pc' = "progress"
            /\ UNCHANGED << trace, batch_no, result >>
    /\ UNCHANGED << op, abs_paths, names, progress_cb, hashes, hash_to_name,
                    remote_hashes, files, outsideUpload >>

\* Lines 705-706; the loop of line 708 is not entered when there is no
\* batch, and the method returns.
UploadProgress ==
    /\ op = "upload_files"
    /\ pc = "progress"
    /\ trace' = IF progress_cb
                THEN Append(trace, Event("progress_cb", Len(remote_hashes)))
                ELSE trace
    /\ batch_no' = 0
    /\ IF Len(batched(UploadItems(abs_paths, names, hashes))) = 0
       THEN /\ pc' = "done"
            /\ result' = Return("None")
       ELSE /\ pc' = "upload"
            /\ result' = result
    /\ UNCHANGED << op, abs_paths, names, progress_cb, hashes,
                    hash_to_name, remote_hashes, files, outsideUpload >>

\* One iteration of the loop of lines 708-721; the post may raise.  The
\* method returns after the last batch.
UploadBatch ==
    /\ op = "upload_files"
    /\ pc = "upload"
    /\ LET batches == batched(UploadItems(abs_paths, names, hashes))
           content_dict == ContentDict(batches[batch_no + 1], remote_hashes)
           last == batch_no + 1 = Len(batches)
       IN IF Len(content_dict) > 0
          THEN \E ok \in BOOLEAN :
                 IF ok
                 THEN /\ trace' = Append(trace, Post("tasks.files.bulk.upload",
                                                     content_dict))
                                  \o (IF progress_cb
                                      THEN << Event("progress_cb", Len(content_dict)) >>
                                      ELSE << >>)
                      /\ pc' = IF last THEN "done" ELSE pc
                      /\ result' = IF last THEN Return("None") ELSE result
                 ELSE /\ trace' = Append(trace, Post("tasks.files.bulk.upload",
                                                     content_dict))
                      /\ pc' = "done"
                      /\ result' = Raise("HTTPError")
          ELSE /\ trace' = trace
               /\ pc' = IF last THEN "done" ELSE pc
               /\ result' = IF last THEN Return("None") ELSE result
    /\ batch_no' = batch_no + 1
    /\ UNCHANGED << op, abs_paths, names, progress_cb, hashes, hash_to_name,
                    remote_hashes, files, outsideUpload >>

(***************************************************************************)
(* TaskApi.update_status                                                   *)
(***************************************************************************)
\* Values a caller passes as status: a Status member, a str, or None.
PyStatus(m) == [t |-> "Status", v |-> m]
PyString(x) == [t |-> "str", v |-> x]
PyNone == [t |-> "NoneType", v |-> "None"]

StatusInputs ==
    { PyStatus(m) : m \in Status }
    \cup { PyString(x) : x \in StatusValues }
    \cup { PyString(x) : x \in { "FINISHED", "paused", "" } }
    \cup { PyNone }

\* Mutant: the status is used as passed, without str().
NoStr(x) == x.v

\* str(status): the value of a Status member, a str itself, "None" for None.
Str(x) ==
    CASE x.t = "Status" -> StatusValue(x.v)
      [] x.t = "str" -> x.v
      [] x.t = "NoneType" -> "None"

UpdateStatus ==
    /\ op = "idle"
    /\ \E st \in StatusInputs, ok \in BOOLEAN :
        LET status_str == Str(st) IN
        /\ call_args' = [status |-> st]
        /\ IF status_str \notin StatusValues
           THEN /\ result' = Raise("ValueError")
                /\ trace' = trace
           ELSE /\ trace' = Append(trace, Post("tasks.status.update",
                                               [id |-> "task_id", status |-> status_str]))
                /\ result' = IF ok THEN Return("None") ELSE Raise("HTTPError")
    /\ op' = "update_status"
    /\ pc' = "done"
    /\ UNCHANGED stepVars

(***************************************************************************)
(* TaskApi.set_fields                                                      *)
(***************************************************************************)
\* An object of fields is a dict, modelled by the set of its keys.
FieldKeys == { "field", "payload", "append" }

\* Mutant: the keys are looked up in the order payload, field.
FirstMissingPayloadFirst(fields, i) ==
    LET bad == { j \in i .. Len(fields) : ~ ({ "field", "payload" } \subseteq fields[j]) }
        k == CHOOSE j \in bad : \A l \in bad : j <= l
    IN IF bad = {} THEN None
       ELSE Some(<< k - 1, IF "payload" \notin fields[k] THEN "payload" ELSE "field" >>)

\* The loops of lines 749-752 from object i on: the index (from 0) and the
\* key of the first lookup that fails, None when every lookup succeeds.
RECURSIVE FirstMissing(_, _)
FirstMissing(fields, i) ==
    IF i > Len(fields) THEN None
    ELSE IF "field" \notin fields[i] THEN Some(<< i - 1, "field" >>)
    ELSE IF "payload" \notin fields[i] THEN Some(<< i - 1, "payload" >>)
    ELSE FirstMissing(fields, i + 1)

SetFields ==
    /\ op = "idle"
    /\ \E fields \in SeqsUpTo(SUBSET FieldKeys, MaxFields), ok \in BOOLEAN :
        LET missing == FirstMissing(fields, 1) IN
        /\ call_args' = [fields |-> fields]
        /\ IF missing # None
           THEN /\ result' = RaiseWith("KeyError", Get(missing))
                /\ trace' = trace
           ELSE /\ trace' = Append(trace, Post("tasks.data.set",
                                               [taskId |-> "task_id", fields |-> fields]))
                /\ result' = IF ok THEN Return("json") ELSE Raise("HTTPError")
    /\ op' = "set_fields"
    /\ pc' = "done"
    /\ UNCHANGED stepVars

(***************************************************************************)
(* TaskApi.start                                                           *)
(***************************************************************************)
\* Keys the payload always holds (lines 598-612).
StartBaseKeys ==
    { "agentId", "workspaceId", "description", "params", "logLevel", "usersIds",
      "appVersion", "isBranch", "taskName", "restartPolicy", "proxyKeepUrl",
      "advancedSettings" }

AppIds == { None, Some(1), Some(2) }
ModuleIds == { None, Some(1), Some(2) }
\* redirect_requests: None, the empty dict or a dict with an entry.
RedirectRequests == { None, Some({}), Some({ "token" }) }

\* Mutant: only the check that one of the two is given is made.
StartArgsErrorOnlyMissing(app_id, module_id) ==
    app_id = None /\ module_id = None

\* Lines 589-592: the two ValueError checks.
StartArgsError(app_id, module_id) ==
    \/ app_id # None /\ module_id # None
    \/ app_id = None /\ module_id = None

\* The payload of tasks.run.app (lines 598-619): a value per key.
StartData(app_id, module_id, redirect_requests) ==
    LET keys == StartBaseKeys
                \cup (IF Cardinality(redirect_requests) > 0
                      THEN { "redirectRequests" } ELSE {})
                \cup (IF app_id # None THEN { "appId" } ELSE {})
                \cup (IF module_id # None THEN { "moduleId" } ELSE {})
    IN [ k \in keys |->
           IF k = "appId" THEN Get(app_id)
           ELSE IF k = "moduleId" THEN Get(module_id)
           ELSE 0 ]

Start ==
    /\ op = "idle"
    /\ \E app_id \in AppIds, module_id \in ModuleIds, rr \in RedirectRequests,
          ok \in BOOLEAN, reply \in { { "id" }, { "taskId" } } :
        /\ call_args' = [app_id |-> app_id, module_id |-> module_id,
                         redirect_requests |-> rr]
        /\ IF StartArgsError(app_id, module_id)
           THEN /\ result' = Raise("ValueError")
                /\ trace' = trace
           ELSE IF rr = None
           THEN \* len(None)
                /\ result' = Raise("TypeError")
                /\ trace' = trace
           ELSE /\ trace' = Append(trace, Post("tasks.run.app",
                                               StartData(app_id, module_id, Get(rr))))
                /\ result' = IF ok THEN ReturnWith("task", reply \cup { "id" })
                                   ELSE Raise("HTTPError")
    /\ op' = "start"
    /\ pc' = "done"
    /\ UNCHANGED stepVars

(***************************************************************************)
(* TaskApi.send_request                                                    *)
(***************************************************************************)
\* A post with keyword arguments for the HTTP client.
PostWith(method, data, kwargs) ==
    [kind |-> "post", arg |-> [method |-> method, data |-> data, kwargs |-> kwargs]]

\* A dict is a function from its keys; the contexts a caller passes hold
\* booleans.  None, the (empty) default, a dict with a key of the caller's
\* and a dict that already holds outside_request.
Contexts ==
    { None,
      Some([k \in {} |-> TRUE]),
      Some([k \in { "user" } |-> TRUE]),
      Some([k \in { "outside_request" } |-> FALSE]) }

\* type(data) of the data argument: dict, a subclass of dict, or no dict.
DataTypes == { "dict", "OrderedDict", "list", "NoneType" }

\* `type(data) is not dict`
NotExactlyDict(data_type) == data_type # "dict"

\* context["outside_request"] = outside_request
SetItem(d, key, value) ==
    [k \in DOMAIN d \cup { key } |-> IF k = key THEN value ELSE d[k]]

SendRequest ==
    /\ op = "idle"
    /\ \E data_type \in DataTypes, context \in Contexts,
          outside_request \in BOOLEAN, skip_response \in BOOLEAN,
          retries \in { 0, 10 }, raise_error \in BOOLEAN, ok \in BOOLEAN :
        /\ call_args' = [data_type |-> data_type, context |-> context,
                         outside_request |-> outside_request,
                         skip_response |-> skip_response,
                         retries |-> retries, raise_error |-> raise_error]
        /\ IF NotExactlyDict(data_type)
           THEN /\ result' = Raise("TypeError")
                /\ trace' = trace
           ELSE IF context = None
           THEN \* None does not support item assignment
                /\ result' = Raise("TypeError")
                /\ trace' = trace
           ELSE /\ trace' = Append(trace,
                      PostWith("tasks.request.direct",
                               [taskId |-> "task_id", command |-> "method",
                                context |-> SetItem(Get(context), "outside_request",
                                                    outside_request),
                                state |-> data_type,
                                skipResponse |-> skip_response,
                                timeout |-> "timeout"],
                               [retries |-> retries, raise_error |-> raise_error]))
                /\ result' = IF ok THEN Return("json") ELSE Raise("HTTPError")
    /\ op' = "send_request"
    /\ pc' = "done"
    /\ UNCHANGED stepVars

(***************************************************************************)
(* TaskApi.update_meta                                                     *)
(***************************************************************************)
\* Lines 983-990: exactly one of the two arguments is None.
OnlyOneGiven(agent_storage_folder, relative_app_dir) ==
    \/ agent_storage_folder = None /\ relative_app_dir # None
    \/ agent_storage_folder # None /\ relative_app_dir = None

\* The posted data: a dict gets the id and, when both arguments are given,
\* agentStorageFolder; anything else is posted as it is.
MetaData(data_type, agent_storage_folder, relative_app_dir) ==
    IF data_type = "dict"
    THEN [type |-> data_type,
          keys |-> { "id" } \cup (IF agent_storage_folder # None /\ relative_app_dir # None
                                  THEN { "agentStorageFolder" } ELSE {})]
    ELSE [type |-> data_type, keys |-> {}]

UpdateMeta ==
    /\ op = "idle"
    /\ \E data_type \in DataTypes, agent_storage_folder \in { None, Some("host") },
          relative_app_dir \in { None, Some("dir") }, ok \in BOOLEAN :
        /\ call_args' = [data_type |-> data_type,
                         agent_storage_folder |-> agent_storage_folder,
                         relative_app_dir |-> relative_app_dir]
        /\ IF data_type = "dict" /\ OnlyOneGiven(agent_storage_folder, relative_app_dir)
           THEN /\ result' = Raise("ValueError")
                /\ trace' = trace
           ELSE /\ trace' = Append(trace,
                      Post("tasks.meta.update",
                           MetaData(data_type, agent_storage_folder, relative_app_dir)))
                /\ result' = IF ok THEN Return("None") ELSE Raise("HTTPError")
    /\ op' = "update_meta"
    /\ pc' = "done"
    /\ UNCHANGED stepVars

(***************************************************************************)
(* TaskApi.deploy_custom_model                                             *)
(***************************************************************************)
\* workspace_id: an int or a value of another type.
WorkspaceIds ==
    { [t |-> "int", v |-> n] : n \in { -1, 0, 1 } } \cup { [t |-> "str", v |-> 0] }

\* An artifacts directory "/<root>/.../<last>": `root` is what follows the
\* leading "/", `last` the last path component split at "_".
Dir(root, last) == [t |-> "str", blank |-> FALSE, root |-> root, last |-> last]

ArtifactsDirs ==
    { [t |-> "NoneType", blank |-> FALSE, root |-> "", last |-> << >>],
      [t |-> "str", blank |-> TRUE, root |-> "", last |-> << >>],
      Dir("yolov8_train", << "7", "run" >>),
      Dir("RITM_training", << "7", "run" >>),
      Dir("yolov5_train", << "7", "run" >>),
      Dir("mmdetection-3", << "7", "run" >>),
      Dir("my_models", << "7", "run" >>),
      Dir("experiments", << "2", "fw" >>),
      Dir("experiments", << "noframework" >>) }

CheckpointNames == { None, Some("c1"), Some("c3") }

\* str.startswith between the names of the model: the proper prefixes.
StartsWith(x, prefix) ==
    \/ x = prefix
    \/ << x, prefix >> \in { << "mmdetection-3", "mmdetection" >> }

\* The dict frameworks (lines 1349-1361), in its order.
Frameworks ==
    << [prefix |-> "detectron2", cls |-> "Detectron2"],
       [prefix |-> "mmclassification", cls |-> "MMClassification"],
       [prefix |-> "mmdetection", cls |-> "MMDetection"],
       [prefix |-> "mmdetection-3", cls |-> "MMDetection3"],
       [prefix |-> "mmsegmentation", cls |-> "MMSegmentation"],
       [prefix |-> "RITM_training", cls |-> "RITM"],
       [prefix |-> "RT-DETR", cls |-> "RTDETR"],
       [prefix |-> "unet", cls |-> "UNet"],
       [prefix |-> "yolov5_train", cls |-> "YOLOv5"],
       [prefix |-> "yolov5_2.0_train", cls |-> "YOLOv5v2"],
       [prefix |-> "yolov8_train", cls |-> "YOLOv8"] >>

\* next((cls for prefix, cls in frameworks.items() if ...), None)
FrameworkCls(root) ==
    LET hits == { i \in 1 .. Len(Frameworks) : StartsWith(root, Frameworks[i].prefix) }
    IN IF hits = {} THEN None
       ELSE Some(Frameworks[CHOOSE i \in hits : \A j \in hits : i <= j].cls)

\* Lines 1371-1374.
NotDeployable(cls) == cls = "RITM" \/ cls = "YOLOv5"

\* A checkpoint: its file name and the directory it lies in.
Checkpoint(name) == [name |-> name, dir |-> "checkpoints"]

\* What the server knows of a training: None, or the list of its
\* checkpoints.
TrainInfos ==
    { None, Some(<< >>), Some(<< Checkpoint("c1"), Checkpoint("c2") >>) }

\* What the server knows of an experiment: None, or its checkpoints and
\* best_checkpoint, the file name of one of them, a field of its own.
ExperimentInfos ==
    { None }
    \cup { Some([checkpoints |-> cps, best_checkpoint |-> best]) :
             cps \in { << >>, << Checkpoint("c1"), Checkpoint("c2") >> },
             best \in { "c1", "c2" } }

\* deploy_model_app: `timeout: int = 100` and `attempt_delay_sec = 10`.
DeployTimeout == 100
AttemptDelaySec == 10

\* Mutant: a requested checkpoint that does not exist is replaced by the
\* last one.
FindCheckpointOrLast(checkpoints, checkpoint_name) ==
    LET hits == { i \in 1 .. Len(checkpoints) :
                    checkpoints[i].name = Get(checkpoint_name) }
    IN IF hits = {} THEN Some(checkpoints[Len(checkpoints)])
       ELSE Some(checkpoints[CHOOSE i \in hits : \A j \in hits : i <= j])

\* The loops of lines 1388-1391 and 1453-1456: the first checkpoint of that
\* name, None when there is none.
FindCheckpoint(checkpoints, checkpoint_name) ==
    LET hits == { i \in 1 .. Len(checkpoints) :
                    checkpoints[i].name = Get(checkpoint_name) }
    IN IF hits = {} THEN None
       ELSE Some(checkpoints[CHOOSE i \in hits : \A j \in hits : i <= j])

\* Lines 1332-1335: the checks of the arguments.
DeployCall ==
    /\ op = "idle"
    /\ \E workspace_id \in WorkspaceIds, artifacts_dir \in ArtifactsDirs,
          checkpoint_name \in CheckpointNames :
        /\ deploy' = [workspace_id |-> workspace_id, artifacts_dir |-> artifacts_dir,
                      checkpoint_name |-> checkpoint_name,
                      workspace_info |-> "unknown", modules |-> "unknown",
                      answered |-> {}, train_info |-> None,
                      experiment_info |-> None,
                      module_id |-> None, checkpoint |-> None]
        /\ IF workspace_id.t # "int" \/ workspace_id.v <= 0
           THEN /\ pc' = "done"
                /\ result' = RaiseWith("ValueError", << "workspace_id" >>)
           ELSE IF artifacts_dir.t # "str" \/ artifacts_dir.blank
           THEN /\ pc' = "done"
                /\ result' = RaiseWith("ValueError", << "artifacts_dir" >>)
           ELSE /\ pc' = "workspace"
                /\ result' = result
    /\ op' = "deploy_custom_model"
    /\ UNCHANGED << trace, outsideDeploy >>

\* Lines 1337-1347: the workspace is looked up, then the branch is chosen.
DeployWorkspace ==
    /\ op = "deploy_custom_model"
    /\ pc = "workspace"
    /\ \E found \in BOOLEAN :
        /\ trace' = Append(trace, Event("workspace.get_info_by_id", deploy.workspace_id.v))
        /\ deploy' = [deploy EXCEPT !.workspace_info = IF found THEN "found" ELSE "None"]
        /\ IF ~ found
           THEN /\ pc' = "done"
                /\ result' = RaiseWith("ValueError", << "workspace" >>)
           ELSE /\ pc' = IF StartsWith(deploy.artifacts_dir.root, "experiments")
                         THEN "train_v2" ELSE "train_v1"
                /\ result' = result
    /\ UNCHANGED << op, outsideDeploy >>

\* Lines 1348-1411: the framework, the serving module and the checkpoint of
\* a Train V1 directory.
DeployTrainV1 ==
    /\ op = "deploy_custom_model"
    /\ pc = "train_v1"
    /\ LET framework_cls == FrameworkCls(deploy.artifacts_dir.root) IN
       IF framework_cls = None
       THEN /\ pc' = "done"
            /\ result' = RaiseWith("ValueError", << "framework" >>)
            /\ UNCHANGED << trace, deploy >>
       ELSE IF NotDeployable(Get(framework_cls))
       THEN /\ pc' = "done"
            /\ result' = RaiseWith("ValueError", << "not deployable" >>)
            /\ UNCHANGED << trace, deploy >>
       ELSE \E train_info \in TrainInfos :
            LET found == IF deploy.checkpoint_name # None
                         THEN FindCheckpoint(Get(train_info), deploy.checkpoint_name)
                         ELSE Some(Get(train_info)[Len(Get(train_info))])
            IN
            /\ trace' = trace \o << Event("get_ecosystem_module_id", Get(framework_cls)),
                                    Event("get_info_by_artifacts_dir", Get(framework_cls)) >>
            /\ IF train_info = None \/ train_info = Some(<< >>)
               THEN /\ pc' = "done"
                    /\ result' = RaiseWith("ValueError", << "checkpoints" >>)
                    /\ deploy' = [deploy EXCEPT !.answered = { "train_info" },
                                                !.train_info = train_info]
               ELSE IF found = None
               THEN /\ pc' = "done"
                    /\ result' = RaiseWith("ValueError", << "checkpoint" >>)
                    /\ deploy' = [deploy EXCEPT !.answered = { "train_info" },
                                                !.train_info = train_info]
               ELSE /\ pc' = "deploy_model_app"
                    /\ result' = result
                    /\ deploy' = [deploy EXCEPT !.answered = { "train_info" },
                                                !.train_info = train_info,
                                                !.module_id = Some(1),
                                                !.checkpoint = Some(Get(found).name)]
    /\ UNCHANGED << op, outsideDeploy >>

\* Lines 1414-1480: the framework name, the serving module, the experiment
\* info and the checkpoint of a Train V2 directory: the checkpoint of the
\* requested name, or experiment_info.best_checkpoint when none is
\* requested (line 1463).
DeployTrainV2 ==
    /\ op = "deploy_custom_model"
    /\ pc = "train_v2"
    /\ IF Len(deploy.artifacts_dir.last) < 2
       THEN \* get_framework_from_artifacts_dir: no "_" in the last component
            /\ pc' = "done"
            /\ result' = RaiseWith("ValueError", << "format" >>)
            /\ UNCHANGED << trace, deploy >>
       ELSE \E has_modules \in BOOLEAN, experiment_info \in ExperimentInfos :
            LET found == FindCheckpoint(Get(experiment_info).checkpoints,
                                        deploy.checkpoint_name)
                checkpoint == IF deploy.checkpoint_name # None
                              THEN Get(found).name
                              ELSE Get(experiment_info).best_checkpoint
            IN
            IF ~ has_modules
            THEN /\ trace' = Append(trace, Event("ecosystem.list", deploy.artifacts_dir.last[2]))
                 /\ pc' = "done"
                 /\ result' = RaiseWith("ValueError", << "serve app" >>)
                 /\ deploy' = [deploy EXCEPT !.modules = "none"]
            ELSE /\ trace' = trace \o << Event("ecosystem.list", deploy.artifacts_dir.last[2]),
                                         Event("get_experiment_info_by_artifacts_dir", 0) >>
                 /\ IF experiment_info = None
                    THEN /\ pc' = "done"
                         /\ result' = RaiseWith("ValueError", << "experiment info" >>)
                         /\ deploy' = [deploy EXCEPT !.modules = "some",
                                                     !.answered = { "experiment_info" },
                                                     !.experiment_info = experiment_info]
                    ELSE IF Len(Get(experiment_info).checkpoints) = 0
                    THEN /\ pc' = "done"
                         /\ result' = RaiseWith("ValueError", << "checkpoints" >>)
                         /\ deploy' = [deploy EXCEPT !.modules = "some",
                                                     !.answered = { "experiment_info" },
                                                     !.experiment_info = experiment_info]
                    ELSE IF deploy.checkpoint_name # None /\ found = None
                    THEN /\ pc' = "done"
                         /\ result' = RaiseWith("ValueError", << "checkpoint" >>)
                         /\ deploy' = [deploy EXCEPT !.modules = "some",
                                                     !.answered = { "experiment_info" },
                                                     !.experiment_info = experiment_info]
                    ELSE /\ pc' = "deploy_model_app"
                         /\ result' = result
                         /\ deploy' = [deploy EXCEPT !.modules = "some",
                                                     !.answered = { "experiment_info" },
                                                     !.experiment_info = experiment_info,
                                                     !.module_id = Some(2),
                                                     !.checkpoint = Some(checkpoint)]
    /\ UNCHANGED << op, outsideDeploy >>

\* Line 1485 and deploy_model_app, line 1261: self.start posts tasks.run.app;
\* the post may raise.  start returns the task's info or raises, so that
\* line 1493 (`if task_info is None`) never holds.
DeployStart ==
    /\ op = "deploy_custom_model"
    /\ pc = "deploy_model_app"
    /\ trace' = Append(trace, Post("tasks.run.app", StartData(None, deploy.module_id, {})))
    /\ \E started \in BOOLEAN :
        IF started
        THEN /\ pc' = "wait_until_ready"
             /\ result' = result
        ELSE /\ pc' = "done"
             /\ result' = Raise("HTTPError")
    /\ UNCHANGED << op, deploy, outsideDeploy >>

\* deploy_model_app, lines 1278-1286: the task is awaited; the wait may
\* answer that the task is ready, that it is not, or raise.
DeployWaitReady ==
    /\ op = "deploy_custom_model"
    /\ pc = "wait_until_ready"
    /\ trace' = Append(trace,
                       Event("wait_until_ready_for_api_calls",
                             [task_id |-> "task_id",
                              attempts |-> (DeployTimeout + AttemptDelaySec)
                                              \div AttemptDelaySec,
                              attempt_delay_sec |-> AttemptDelaySec]))
    /\ \E ready \in { "ready", "not ready", "raises" } :
        CASE ready = "ready" ->
               /\ pc' = "deploy_from_api"
               /\ result' = result
          [] ready = "not ready" ->
               /\ pc' = "done"
               /\ result' = Raise("TimeoutError")
          [] OTHER ->
               /\ pc' = "done"
               /\ result' = Raise("HTTPError")
    /\ UNCHANGED << op, deploy, outsideDeploy >>

\* deploy_model_app, line 1288, deploy_model_from_api (1232-1238) and the
\* return of lines 1289 and 1495; the request may raise.
DeployFromApi ==
    /\ op = "deploy_custom_model"
    /\ pc = "deploy_from_api"
    /\ trace' = Append(trace,
                       PostWith("tasks.request.direct",
                                [taskId |-> "task_id", command |-> "deploy_from_api",
                                 context |-> SetItem([k \in {} |-> TRUE],
                                                     "outside_request", TRUE),
                                 state |-> [checkpoint |-> Get(deploy.checkpoint)],
                                 skipResponse |-> FALSE, timeout |-> "timeout"],
                                [retries |-> 10, raise_error |-> TRUE]))
    /\ pc' = "done"
    /\ \E deployed \in BOOLEAN :
        result' = IF deployed THEN Return("task_id") ELSE Raise("HTTPError")
    /\ UNCHANGED << op, deploy, outsideDeploy >>

(***************************************************************************)
(* supervisely.io.json.load_json_file                                      *)
(***************************************************************************)
\* What lies at the path: a directory, nothing, something that is neither a
\* directory nor a regular file, or a regular file.
PathKinds == { "directory", "missing", "other", "file" }

\* The content of a file: a few bytes; "xff" is the byte 0xFF.
MaxFileLen == 2
FileBytes == { "{", "}", "1", "xff" }
\* The file of a well-formed task configuration: "task_config" stands for
\* the bytes of the members the plugins read (task_id, server_address, ...).
TaskConfigFile == << "{", "task_config", "}" >>
FileContents == SeqsUpTo(FileBytes, MaxFileLen) \cup { TaskConfigFile }

\* open(filename, encoding="utf-8"): 0xFF is part of no UTF-8 sequence.
Utf8Decodes(bytes) == \A i \in 1 .. Len(bytes) : bytes[i] # "xff"

RECURSIVE DecimalOnes(_)
DecimalOnes(n) == IF n = 0 THEN 0 ELSE 10 * DecimalOnes(n - 1) + 1

\* json.load of a text over "{", "}", "1" and the members of a task
\* configuration: an object (v: 0 for the empty one, 1 for the one with the
\* members), a number of ones, or None for JSONDecodeError.
JsonLoad(text) ==
    IF text = << "{", "}" >> THEN Some([t |-> "dict", v |-> 0])
    ELSE IF text = TaskConfigFile THEN Some([t |-> "dict", v |-> 1])
    ELSE IF Len(text) > 0 /\ \A i \in 1 .. Len(text) : text[i] = "1"
    THEN Some([t |-> "int", v |-> DecimalOnes(Len(text))])
    ELSE None

\* Lines 122-132: how load_json_file ends for a path of that kind and, for
\* a file, of that content.
LoadJsonFileResult(kind, content) ==
    IF kind = "directory" THEN Raise("IsADirectoryError")
    ELSE IF kind # "file" THEN Raise("FileNotFoundError")
    ELSE IF ~ Utf8Decodes(content) THEN Raise("UnicodeDecodeError")
    ELSE IF JsonLoad(content) = None THEN Raise("RuntimeError")
    ELSE ReturnWith("json", << Get(JsonLoad(content)) >>)

LoadJsonFile ==
    /\ op = "idle"
    /\ \E kind \in PathKinds, content \in FileContents :
        /\ call_args' = [kind |-> kind,
                         content |-> IF kind = "file" THEN content ELSE << >>]
        /\ result' = LoadJsonFileResult(kind, content)
    /\ op' = "load_json_file"
    /\ pc' = "done"
    /\ UNCHANGED << trace, stepVars >>

(***************************************************************************)
(* supervisely.io.json.validate_json                                       *)
(***************************************************************************)
\* The data: a JSON value, by its type.
JsonData == { [t |-> "object"], [t |-> "integer"], [t |-> "string"] }

\* A schema: its "type" keyword ("absent" when it has none, "nonsense" for a
\* value that names no JSON type) and its "$ref" keyword ("dangling" for a
\* reference that resolves to nothing).
JsonTypes == { "object", "integer", "string" }
JsonSchemas ==
    [type : JsonTypes \cup { "absent", "nonsense" }, ref : { "absent", "dangling" }]

\* jsonschema.validate(instance=data, schema=schema): the schema is checked
\* first, then the instance against it.
JsonschemaValidate(data, schema) ==
    IF schema.type \notin JsonTypes \cup { "absent" } THEN "SchemaError"
    ELSE IF schema.ref = "dangling" THEN "RefResolutionError"
    ELSE IF schema.type # "absent" /\ schema.type # data.t THEN "ValidationError"
    ELSE "valid"

\* Mutant: invalid data raises whatever raise_error is.
ValidateJsonResultAlwaysRaises(outcome, raise_error) ==
    IF outcome = "valid" THEN Return("True")
    ELSE IF outcome = "ValidationError" THEN Raise("ValueError")
    ELSE Raise(outcome)

\* Lines 227-233: the try block around jsonschema.validate.
ValidateJsonResult(outcome, raise_error) ==
    IF outcome = "valid" THEN Return("True")
    ELSE IF outcome = "ValidationError"
    THEN IF raise_error THEN Raise("ValueError") ELSE Return("False")
    ELSE Raise(outcome)

ValidateJson ==
    /\ op = "idle"
    /\ \E data \in JsonData, schema \in JsonSchemas, raise_error \in BOOLEAN :
        /\ call_args' = [data |-> data, schema |-> schema, raise_error |-> raise_error]
        /\ result' = ValidateJsonResult(JsonschemaValidate(data, schema), raise_error)
    /\ op' = "validate_json"
    /\ pc' = "done"
    /\ UNCHANGED << trace, stepVars >>

(***************************************************************************)
(* supervisely.io.json.modify_keys                                         *)
(***************************************************************************)
\* A string is the sequence of its characters; a dict is a function from
\* its keys.
DictKeys == { << "a" >>, << "b" >>, << "a", "b" >> }
DictValues == { "example", "other" }
Dicts == UNION { [ks -> DictValues] : ks \in SUBSET DictKeys }
Affixes == { None, Some(<< >>), Some(<< "a" >>), Some(<< "b" >>) }

\* Mutant: the suffix is put in front of the key.
ModifySuffixInFront(k, prefix, suffix) ==
    LET res == IF prefix # None THEN Get(prefix) \o k ELSE k
    IN IF suffix # None THEN Get(suffix) \o res ELSE res

\* _modify (lines 204-209).
Modify(k, prefix, suffix) ==
    LET res == IF prefix # None THEN Get(prefix) \o k ELSE k
    IN IF suffix # None THEN res \o Get(suffix) ELSE res

\* Line 211: {_modify(k): v for k, v in data.items()}.
ModifiedDict(data, prefix, suffix) ==
    [ nk \in { Modify(k, prefix, suffix) : k \in DOMAIN data } |->
        data[CHOOSE k \in DOMAIN data : Modify(k, prefix, suffix) = nk] ]

ModifyKeys ==
    /\ op = "idle"
    /\ \E data \in Dicts, prefix \in Affixes, suffix \in Affixes :
        /\ call_args' = [data |-> data, prefix |-> prefix, suffix |-> suffix,
                         data_after |-> data]
        /\ result' = ReturnWith("dict", << ModifiedDict(data, prefix, suffix) >>)
    /\ op' = "modify_keys"
    /\ pc' = "done"
    /\ UNCHANGED << trace, stepVars >>

(***************************************************************************)
(* The images import plugin: add_images_to_project                         *)
(***************************************************************************)
MaxImportFiles == 3
ImportBatchSize == 10

\* A listed file: the dataset its path belongs to, its name without the
\* extension (a sequence of parts) and its extension.
ImportDatasets == { "ds0", "ds1" }
ImportStems == { << "a" >>, << "a", "_", "s1" >> }
ImportExts == { ".jpg", ".txt" }
ImportFiles == [ds : ImportDatasets, stem : ImportStems, ext : ImportExts]

\* The hash of the i-th listed file, a base64 text ("/" is one of its
\* characters): x/y, xay, xby, ...
ImportHash(i) == << "x", << "/", "a", "b", "c", "d" >>[((i - 1) % 5) + 1], "y" >>

\* The answer of tasks.import.files_list: every file with its hash.
FilesList(listed) ==
    [ i \in 1 .. Len(listed) |->
        [ds |-> listed[i].ds, stem |-> listed[i].stem, ext |-> listed[i].ext,
         hash |-> ImportHash(i)] ]

\* TaskApi.get_import_files_list: the JSON of the response, None for no
\* response.
GetImportFilesList(response) == IF response = None THEN None ELSE response

\* str.replace for one character.
Replace(str, old, new) ==
    [ i \in 1 .. Len(str) |-> IF str[i] = old THEN new ELSE str[i] ]

\* The strings rand_str(5) may return.
RandStrs == { "s1", "s2" }

\* sly.image.validate_ext raises for an extension that is not an image's.
ValidExt(ext) == ext = ".jpg"

\* get_dataset_name(original_path)
GetDatasetName(file) == file.ds

\* sly.fs.get_file_name_with_ext(original_path)
ItemName(file) == [stem |-> file.stem, ext |-> file.ext]

\* Line 58: "{}_{}{}".format(temp_name, sly.rand_str(5), temp_ext)
NewItemName(file, rand) == [stem |-> file.stem \o << "_", rand >>, ext |-> file.ext]

\* A dict keeps its keys in the order of their insertion: a sequence of
\* entries [key, value] without a repeated key.
DictKeysOf(d) == { d[i].key : i \in 1 .. Len(d) }
DictGet(d, key, default) ==
    IF key \in DictKeysOf(d)
    THEN d[CHOOSE i \in 1 .. Len(d) : d[i].key = key].value
    ELSE default
\* d[key] = value
DictSet(d, key, value) ==
    IF key \in DictKeysOf(d)
    THEN [ i \in 1 .. Len(d) |-> IF d[i].key = key THEN [key |-> key, value |-> value]
                                 ELSE d[i] ]
    ELSE Append(d, [key |-> key, value |-> value])

\* sly.batched(seq, 10)
ImportBatches(seq) ==
    [ k \in 1 .. ((Len(seq) + ImportBatchSize - 1) \div ImportBatchSize) |->
        SubSeq(seq, (k - 1) * ImportBatchSize + 1, Min(k * ImportBatchSize, Len(seq))) ]

\* Line 71: the file an image is downloaded to:
\* os.path.join(RESULTS_DIR, h.replace("/", "a") + DEFAULT_IMG_EXT).
ResultPath(hash) ==
    [dir |-> "RESULTS_DIR", name |-> Replace(hash, "/", "a"), ext |-> ".png"]

\* Line 83 hands progress.iters_done_report to upload_hashes, which may
\* leave it alone, call it once for the batch or once for every image.
CallbackReports(n) ==
    { << >>, << Event("progress.iters_done_report", n) >>,
      [ i \in 1 .. n |-> Event("progress.iters_done_report", 1) ] }

\* names, hashes and paths of the items of a dataset (lines 69-71).
ItemNames(ds_items) == [ i \in 1 .. Len(ds_items) |-> ds_items[i].key ]
ItemHashes(ds_items) == [ i \in 1 .. Len(ds_items) |-> ds_items[i].value ]
ItemPaths(ds_items) == [ i \in 1 .. Len(ds_items) |-> ResultPath(ds_items[i].value) ]

\* Lines 77-79: every downloaded image is read and written back.
ReadWrites(paths, remove_alpha_channel) ==
    [ k \in 1 .. 2 * Len(paths) |->
        Event(IF k % 2 = 1 THEN "sly.image.read" ELSE "sly.image.write",
              [path |-> paths[(k + 1) \div 2],
               remove_alpha_channel |-> remove_alpha_channel]) ]

\* Lines 15-27: the results directory is made and the task's configuration
\* is read with load_json_file, whose exceptions leave the function; a
\* value that is no object makes line 19 raise TypeError, an object without
\* the members KeyError.
ImportCall ==
    /\ op = "idle"
    /\ \E kind \in PathKinds, content \in FileContents,
          append_to_existing_project \in BOOLEAN,
          normalize_exif \in BOOLEAN, remove_alpha_channel \in BOOLEAN :
        LET task_config == LoadJsonFileResult(kind, content) IN
        /\ plugin' = [append_to_existing_project |-> append_to_existing_project,
                      remove_alpha_channel |-> remove_alpha_channel,
                      need_download |-> normalize_exif \/ remove_alpha_channel,
                      project_info |-> "unset", listed |-> FALSE,
                      files_list |-> << >>, idx |-> 0, dataset_to_item |-> << >>,
                      ds_idx |-> 0, batch_no |-> 0]
        /\ trace' = trace \o << Event("sly.fs.ensure_base_path", "RESULTS_DIR"),
                                Event("load_json_file", "TASK_CONFIG_PATH") >>
        /\ IF task_config.kind = "raise"
           THEN /\ pc' = "done"
                /\ result' = Raise(task_config.value)
           ELSE IF task_config.detail[1].t # "dict"
           THEN /\ pc' = "done"
                /\ result' = Raise("TypeError")
           ELSE IF task_config.detail[1].v = 0
           THEN /\ pc' = "done"
                /\ result' = Raise("KeyError")
           ELSE /\ pc' = "task_info"
                /\ result' = result
    /\ op' = "add_images_to_project"
    /\ UNCHANGED outsidePlugin

\* Lines 29-38: the Api object is made and the task is looked up; the
\* request may raise, and an answer of None makes line 35 raise TypeError.
ImportTaskInfo ==
    /\ op = "add_images_to_project"
    /\ pc = "task_info"
    /\ \E answer \in { "info", "None", "raises" } :
        IF answer = "raises"
        THEN /\ trace' = trace \o << Event("sly.Api", "retry_count=5"),
                                     Event("api.task.get_info_by_id", "task_id") >>
             /\ pc' = "done"
             /\ result' = Raise("HTTPError")
        ELSE /\ trace' = trace \o << Event("sly.Api", "retry_count=5"),
                                     Event("api.task.get_info_by_id", "task_id"),
                                     Event("api.add_additional_field", "taskId"),
                                     Event("api.add_header", "x-task-id") >>
             /\ IF answer = "None"
                THEN /\ pc' = "done"
                     /\ result' = Raise("TypeError")
                ELSE /\ pc' = "project"
                     /\ result' = result
    /\ UNCHANGED << op, plugin, outsidePlugin >>

\* Lines 40-44: the project is looked up (raise_error=True: found, or an
\* exception) or created (the answer may be None).
ImportProject ==
    /\ op = "add_images_to_project"
    /\ pc = "project"
    /\ trace' = Append(trace,
                       Event(IF plugin.append_to_existing_project
                             THEN "api.project.get_info_by_name"
                             ELSE "api.project.create", "project_name"))
    /\ \E answer \in { "info", "raises" }
                     \cup (IF plugin.append_to_existing_project THEN {} ELSE { "None" }) :
        IF answer = "raises"
        THEN /\ pc' = "done"
             /\ result' = Raise("HTTPError")
             /\ plugin' = plugin
        ELSE /\ pc' = "files_list"
             /\ result' = result
             /\ plugin' = [plugin EXCEPT !.project_info = answer]
    /\ UNCHANGED << op, outsidePlugin >>

\* Lines 46-48: the files of the task are listed; the request may raise,
\* and an answer of None makes the for statement of line 48 raise
\* TypeError.
ImportList ==
    /\ op = "add_images_to_project"
    /\ pc = "files_list"
    /\ \/ \E response \in { None }
                          \cup { Some(FilesList(listed)) :
                                   listed \in SeqsUpTo(ImportFiles, MaxImportFiles) } :
            LET files_list == GetImportFilesList(response) IN
            IF files_list = None
            THEN /\ trace' = Append(trace, Event("api.task.get_import_files_list", "None"))
                 /\ pc' = "done"
                 /\ result' = Raise("TypeError")
                 /\ plugin' = plugin
            ELSE /\ plugin' = [plugin EXCEPT !.files_list = Get(files_list),
                                             !.listed = TRUE]
                 /\ trace' = Append(trace, Event("api.task.get_import_files_list", "list"))
                 /\ pc' = IF Len(Get(files_list)) = 0 THEN "dataset" ELSE "collect"
                 /\ result' = result
       \/ /\ trace' = Append(trace, Event("api.task.get_import_files_list", "raises"))
          /\ pc' = "done"
          /\ result' = Raise("HTTPError")
          /\ plugin' = plugin
    /\ UNCHANGED << op, outsidePlugin >>

\* One iteration of the loop of lines 48-64.
ImportCollect ==
    /\ op = "add_images_to_project"
    /\ pc = "collect"
    /\ LET idx == plugin.idx + 1
           file_info == plugin.files_list[idx]
           ds_name == GetDatasetName(file_info)
           ds_items == DictGet(plugin.dataset_to_item, ds_name, << >>)
       IN \E rand \in RandStrs :
            LET item_name == IF ItemName(file_info) \in DictKeysOf(ds_items)
                             THEN NewItemName(file_info, rand)
                             ELSE ItemName(file_info)
            IN plugin' = [plugin EXCEPT
                            !.idx = idx,
                            !.dataset_to_item =
                                IF ValidExt(file_info.ext)
                                THEN DictSet(@, ds_name,
                                             DictSet(ds_items, item_name, file_info.hash))
                                ELSE @]
    /\ pc' = IF plugin.idx + 1 = Len(plugin.files_list) THEN "dataset" ELSE "collect"
    /\ UNCHANGED << op, result, trace, outsidePlugin >>

\* The head of the loop of line 66 with lines 67-72: the next dataset is
\* got or created (project_info.id raises AttributeError when the project
\* is None; the request may raise); after the last dataset lines 86-92 end
\* the function.
ImportDataset ==
    /\ op = "add_images_to_project"
    /\ pc = "dataset"
    /\ IF plugin.ds_idx < Len(plugin.dataset_to_item)
       THEN LET entry == plugin.dataset_to_item[plugin.ds_idx + 1] IN
            IF plugin.project_info = "None"
            THEN /\ pc' = "done"
                 /\ result' = Raise("AttributeError")
                 /\ UNCHANGED << trace, plugin >>
            ELSE \E ok \in BOOLEAN :
                 IF ok
                 THEN /\ trace' = trace \o
                          << Event("api.dataset.get_or_create", entry.key),
                             Event("Progress", [dataset |-> entry.key,
                                                total |-> Len(entry.value)]) >>
                      /\ plugin' = [plugin EXCEPT !.batch_no = 0]
                      /\ pc' = IF Len(ImportBatches(entry.value)) = 0 THEN "dataset"
                               ELSE IF plugin.need_download THEN "download"
                               ELSE "upload"
                      /\ result' = result
                 ELSE /\ trace' = Append(trace,
                                         Event("api.dataset.get_or_create", entry.key))
                      /\ pc' = "done"
                      /\ result' = Raise("HTTPError")
                      /\ plugin' = plugin
       ELSE /\ pc' = "done"
            /\ result' = IF plugin.project_info = "None"
                         THEN Raise("RuntimeError") ELSE Return("None")
            /\ UNCHANGED << trace, plugin >>
    /\ UNCHANGED << op, outsidePlugin >>

\* Lines 75-79: the images of the batch are downloaded, read and written
\* back; the request may raise.
ImportDownload ==
    /\ op = "add_images_to_project"
    /\ pc = "download"
    /\ LET entry == plugin.dataset_to_item[plugin.ds_idx + 1]
           batch_hashes == ImportBatches(ItemHashes(entry.value))[plugin.batch_no + 1]
           batch_paths == ImportBatches(ItemPaths(entry.value))[plugin.batch_no + 1]
           download == Event("api.image.download_paths_by_hashes",
                             [hashes |-> batch_hashes, paths |-> batch_paths])
       IN \E ok \in BOOLEAN :
            IF ok
            THEN /\ trace' = Append(trace, download)
                              \o ReadWrites(batch_paths, plugin.remove_alpha_channel)
                 /\ pc' = "upload"
                 /\ result' = result
            ELSE /\ trace' = Append(trace, download)
                 /\ pc' = "done"
                 /\ result' = Raise("HTTPError")
    /\ UNCHANGED << op, plugin, outsidePlugin >>

\* Lines 80-84: the batch is uploaded (by path, then the results directory
\* is cleaned; or by hash, the upload reporting through the callback it is
\* handed) and reported; the request may raise.  After the
\* last batch the next dataset follows.
ImportUpload ==
    /\ op = "add_images_to_project"
    /\ pc = "upload"
    /\ LET entry == plugin.dataset_to_item[plugin.ds_idx + 1]
           batch_names == ImportBatches(ItemNames(entry.value))[plugin.batch_no + 1]
           batch_hashes == ImportBatches(ItemHashes(entry.value))[plugin.batch_no + 1]
           batch_paths == ImportBatches(ItemPaths(entry.value))[plugin.batch_no + 1]
           last == plugin.batch_no + 1 = Len(ImportBatches(entry.value))
           upload == IF plugin.need_download
                     THEN Event("api.image.upload_paths",
                                [dataset |-> entry.key, names |-> batch_names,
                                 paths |-> batch_paths])
                     ELSE Event("api.image.upload_hashes",
                                [dataset |-> entry.key, names |-> batch_names,
                                 hashes |-> batch_hashes,
                                 progress_cb |-> "progress.iters_done_report"])
           report == Event("progress.iters_done_report", Len(batch_names))
       IN \E ok \in BOOLEAN,
             callbacks \in (IF plugin.need_download THEN { << >> }
                            ELSE CallbackReports(Len(batch_names))) :
            IF ok
            THEN /\ trace' = Append(trace, upload)
                              \o callbacks
                              \o (IF plugin.need_download
                                  THEN << Event("sly.fs.clean_dir", "RESULTS_DIR") >>
                                  ELSE << >>)
                              \o << report >>
                 /\ plugin' = IF last
                              THEN [plugin EXCEPT !.ds_idx = @ + 1, !.batch_no = 0]
                              ELSE [plugin EXCEPT !.batch_no = @ + 1]
                 /\ pc' = IF last THEN "dataset"
                          ELSE IF plugin.need_download THEN "download" ELSE "upload"
                 /\ result' = result
            ELSE /\ trace' = Append(trace, upload) \o callbacks
                 /\ pc' = "done"
                 /\ result' = Raise("HTTPError")
                 /\ plugin' = plugin
    /\ UNCHANGED << op, outsidePlugin >>

(***************************************************************************)
(* Specification                                                           *)
(***************************************************************************)
Init ==
    /\ op = "idle"
    /\ pc = "idle"
    /\ result = NoResult
    /\ trace = << >>
    /\ call_args = NoCall
    /\ target_status = "QUEUED"
    /\ wait_attempts_arg = None
    /\ wait_attempt_timeout_sec = None
    /\ wait_attempts = 0
    /\ effective_wait_timeout = 0
    /\ attempt = 0
    /\ status = "None"
    /\ polls = 0
    /\ sleeps = 0
    /\ slept = 0
    /\ last_event = "none"
    /\ abs_paths = << >>
    /\ names = << >>
    /\ progress_cb = FALSE
    /\ hashes = << >>
    /\ hash_to_name = [h \in Hashes |-> << >>]
    /\ remote_hashes = << >>
    /\ files = << >>
    /\ batch_no = 0
    /\ deploy = NoCall
    /\ plugin = NoCall

Next ==
    \/ WaitCall
    \/ WaitPoll
    \/ WaitSleep
    \/ WaitTimeout
    \/ UploadCall
    \/ UploadHash
    \/ UploadCheck
    \/ UploadAddByHash
    \/ UploadProgress
    \/ UploadBatch
    \/ UpdateStatus
    \/ SetFields
    \/ Start
    \/ SendRequest
    \/ UpdateMeta
    \/ DeployCall
    \/ DeployWorkspace
    \/ DeployTrainV1
    \/ DeployTrainV2
    \/ DeployStart
    \/ DeployWaitReady
    \/ DeployFromApi
    \/ LoadJsonFile
    \/ ValidateJson
    \/ ModifyKeys
    \/ ImportCall
    \/ ImportTaskInfo
    \/ ImportProject
    \/ ImportList
    \/ ImportCollect
    \/ ImportDataset
    \/ ImportDownload
    \/ ImportUpload

Spec == Init /\ [][Next]_vars

\* A call of wait that has started keeps executing: the interpreter runs
\* the method's statements one after the other.
FairSpec == Spec /\ WF_vars(WaitStep)

(***************************************************************************)
(* Claims about TaskApi.wait                                               *)
(***************************************************************************)
WaitTerminalStatuses == { "ERROR", target_status, "FINISHED", "DEPLOYED", "STOPPED" }

\* No polled status of the call so far ended the loop: the earlier ones let
\* the loop go on, so only the last one has to be looked at.
NoTerminalStatusPolled == polls = 0 \/ status \notin WaitTerminalStatuses

NegativeTimeout ==
    IF wait_attempt_timeout_sec = None \/ wait_attempt_timeout_sec = Some(0)
    THEN WAIT_ATTEMPT_TIMEOUT_SEC < 0
    ELSE Get(wait_attempt_timeout_sec) < 0

\* N as C1 states it: wait_attempts, or MAX_WAIT_ATTEMPTS when not given; a
\* negative number of attempts allows no poll, like 0.
C1_N_AsClaimed ==
    IF wait_attempts_arg = None THEN MAX_WAIT_ATTEMPTS
    ELSE IF Get(wait_attempts_arg) < 0 THEN 0
    ELSE Get(wait_attempts_arg)

\* The number of iterations line 293 leaves: a wait_attempts of 0 is falsy
\* and is replaced by MAX_WAIT_ATTEMPTS, like None; the range of a negative
\* one is empty.
WaitIterations ==
    IF wait_attempts_arg = None \/ wait_attempts_arg = Some(0)
    THEN MAX_WAIT_ATTEMPTS
    ELSE IF Get(wait_attempts_arg) < 0 THEN 0
    ELSE Get(wait_attempts_arg)

\* `excused` is the case the statement leaves out.
PollBound(N, excused) ==
    op = "wait" =>
        /\ polls <= N
        /\ (Terminated /\ result = Raise("WaitingTimeExceeded")) => polls = N
        /\ (Terminated /\ NoTerminalStatusPolled /\ ~ excused)
              => (result = Raise("WaitingTimeExceeded") /\ polls = N)

\* C1: with N = wait_attempts (MAX_WAIT_ATTEMPTS when it is not given) wait
\* issues at most N polls and raises WaitingTimeExceeded after exactly N
\* polls when no polled status is ERROR, target_status, FINISHED, DEPLOYED or
\* STOPPED.
C1_Original == PollBound(C1_N_AsClaimed, FALSE)

\* What the code does guarantee: every call of wait terminates, it polls at
\* most WaitIterations times, and when no polled status ends the loop and the
\* timeout is not negative it raises WaitingTimeExceeded after exactly
\* WaitIterations polls.
WaitBoundedPolls ==
    /\ [] PollBound(WaitIterations, NegativeTimeout)
    /\ (op = "wait") ~> Terminated

\* wait(wait_attempts=0) has polled MAX_WAIT_ATTEMPTS times and timed out.
WaitZeroAttemptsTimedOut ==
    /\ op = "wait" /\ Terminated
    /\ wait_attempts_arg = Some(0)
    /\ result = Raise("WaitingTimeExceeded")
    /\ polls = MAX_WAIT_ATTEMPTS

\* C2: wait raises TaskFinishedWithError at the first poll that observes
\* ERROR, with no poll or sleep after it, also when target_status is ERROR;
\* wait never returns normally on an ERROR observation.
C2_ErrorRaises ==
    /\ [] ((op = "wait" /\ status = "ERROR")
              => (Terminated /\ result = Raise("TaskFinishedWithError")))
    /\ [][ (op = "wait" /\ status = "ERROR")
              => (polls' = polls /\ sleeps' = sleeps /\ result' = result) ]_vars

\* ERROR was observed at the second poll of a wait for target_status ERROR.
C2_Witness ==
    /\ op = "wait" /\ Terminated
    /\ target_status = "ERROR" /\ status = "ERROR"
    /\ polls = 2 /\ sleeps = 1
    /\ result = Raise("TaskFinishedWithError")

C3_ReturnStatuses == { target_status, "FINISHED", "DEPLOYED", "STOPPED" }

\* C3: when wait returns normally its last polled status is target_status,
\* FINISHED, DEPLOYED or STOPPED; no poll and no sleep follows the first
\* observation of such a status; QUEUED, CONSUMED, STARTED and TERMINATING
\* cause a return only when equal to target_status.
C3_ReturnOnlyOnStop ==
    /\ [] ((op = "wait" /\ result.kind = "return")
              => (polls >= 1 /\ status \in C3_ReturnStatuses))
    /\ [] ((op = "wait" /\ polls >= 1 /\ status \in C3_ReturnStatuses)
              => (Terminated /\ (status # "ERROR" => result = Return("None"))))
    /\ [][ (op = "wait" /\ polls >= 1 /\ status \in C3_ReturnStatuses)
              => (polls' = polls /\ sleeps' = sleeps /\ result' = result) ]_vars
    /\ [] ((op = "wait" /\ result.kind = "return"
              /\ status \in { "QUEUED", "CONSUMED", "STARTED", "TERMINATING" })
              => status = target_status)

\* wait returned at its second poll, which observed target_status STARTED.
C3_Witness ==
    /\ op = "wait" /\ Terminated
    /\ result.kind = "return"
    /\ target_status = "STARTED" /\ status = "STARTED"
    /\ polls = 2 /\ sleeps = 1

\* The desired status is reached when the call ends on target_status.
C4_Reached == polls >= 1 /\ status = target_status

\* C4 (the docstring of wait): wait returns True if the desired status is
\* reached and False otherwise.
C4_ReturnsBool ==
    (op = "wait" /\ Terminated)
        => result = (IF C4_Reached THEN Return("True") ELSE Return("False"))

(***************************************************************************)
(* Claims about TaskApi.upload_files                                       *)
(***************************************************************************)
\* Positions in trace of the posts of a method.
PostsOf(method) ==
    { r \in 1 .. Len(trace) : trace[r].kind = "post" /\ trace[r].arg.method = method }

\* The items request r carries: the files of an add-by-hash request, the
\* fields of the multipart body of a bulk.upload request.
ItemsIn(r) ==
    IF trace[r].arg.method = "tasks.files.bulk.add-by-hash"
    THEN trace[r].arg.data.files
    ELSE trace[r].arg.data

\* The (request, position) pairs of the items sent by the posts of a method.
ItemsOf(method) ==
    UNION { { << r, j >> : j \in 1 .. Len(ItemsIn(r)) } : r \in PostsOf(method) }

ItemAt(rj) == ItemsIn(rj[1])[rj[2]]

InputIdx == 1 .. Min(Len(abs_paths), Len(names))

\* The hash of input i is in the list check_existing_hashes returned.
ReportedExisting(i) ==
    \E k \in 1 .. Len(remote_hashes) : remote_hashes[k] = get_file_hash(abs_paths[i])

UploadReturned == op = "upload_files" /\ Terminated /\ result.kind = "return"

\* C5: the content of an input file whose hash check_existing_hashes
\* reported is never sent in a tasks.files.bulk.upload request, and once the
\* add-by-hash requests are posted the file is registered in one of them
\* under its own name and hash.
C5_Deduplicates ==
    op = "upload_files" =>
        \A i \in InputIdx : ReportedExisting(i) =>
            /\ \A rj \in ItemsOf("tasks.files.bulk.upload") :
                  ItemAt(rj).key[2] = "-file"
                      => get_file_hash(ItemAt(rj).content) # get_file_hash(abs_paths[i])
            /\ (pc \in { "progress", "upload" } \/ UploadReturned)
                  => \E rj \in ItemsOf("tasks.files.bulk.add-by-hash") :
                        ItemAt(rj) = [name |-> names[i],
                                      hash |-> get_file_hash(abs_paths[i])]

\* Two files of the same existing content and a new one have been handled.
C5_Witness ==
    /\ UploadReturned
    /\ abs_paths = << "a", "c", "b" >>
    /\ names = << "n1", "n1", "n2" >>
    /\ remote_hashes = << "h1" >>
    /\ PostsOf("tasks.files.bulk.upload") # {}

\* C6: after upload_files returns, every input pair has been delivered
\* exactly once and by one route: the add-by-hash entries {name, hash} are,
\* with multiplicity, the inputs whose hash was reported existing, and the
\* file parts and JSON parts of the bulk.upload requests are, with
\* multiplicity, the other inputs, also when inputs share a hash.
C6_DeliveredExactlyOnce ==
    UploadReturned =>
        /\ \A n \in Names, h \in Hashes :
              /\ Cardinality({ rj \in ItemsOf("tasks.files.bulk.add-by-hash") :
                                 ItemAt(rj) = [name |-> n, hash |-> h] })
                 = Cardinality({ i \in InputIdx :
                                   /\ names[i] = n
                                   /\ get_file_hash(abs_paths[i]) = h
                                   /\ ReportedExisting(i) })
              /\ Cardinality({ rj \in ItemsOf("tasks.files.bulk.upload") :
                                 /\ ItemAt(rj).key[2] = ""
                                 /\ ItemAt(rj).name = n
                                 /\ ItemAt(rj).content = h })
                 = Cardinality({ i \in InputIdx :
                                   /\ names[i] = n
                                   /\ get_file_hash(abs_paths[i]) = h
                                   /\ ~ ReportedExisting(i) })
        /\ \A n \in Names, p \in Paths :
              Cardinality({ rj \in ItemsOf("tasks.files.bulk.upload") :
                              /\ ItemAt(rj).key[2] = "-file"
                              /\ ItemAt(rj).name = n
                              /\ ItemAt(rj).content = p })
              = Cardinality({ i \in InputIdx :
                                /\ names[i] = n
                                /\ abs_paths[i] = p
                                /\ ~ ReportedExisting(i) })

\* Two inputs of the same new hash and one existing file, in two batches.
C6_Witness ==
    /\ UploadReturned
    /\ abs_paths = << "a", "b", "c" >>
    /\ names = << "n1", "n1", "n2" >>
    /\ remote_hashes = << "h2" >>
    /\ Len(trace) >= 6

\* C7: upload_files raises RuntimeError when len(abs_paths) != len(names),
\* before it hashes a file, calls check_existing_hashes, posts a request or
\* calls progress_cb.
C7_LengthCheckFirst ==
    (op = "upload_files" /\ Len(abs_paths) # Len(names))
        => /\ Terminated
           /\ result = Raise("RuntimeError")
           /\ trace = << >>
           /\ hashes = << >>

\* upload_files was called with two paths, one name and a progress_cb.
C7_Witness ==
    /\ op = "upload_files" /\ Terminated
    /\ Len(abs_paths) = 2 /\ Len(names) = 1 /\ progress_cb
    /\ result = Raise("RuntimeError")

(***************************************************************************)
(* Claims about update_status, set_fields and start                        *)
(***************************************************************************)
EightStatusStrings ==
    { "queued", "consumed", "started", "deployed",
      "error", "finished", "terminating", "stopped" }

\* The string form C8 expects of an accepted status.
C8_StringForm(st) ==
    IF st.t = "Status"
    THEN CASE st.v = "QUEUED" -> "queued"
           [] st.v = "CONSUMED" -> "consumed"
           [] st.v = "STARTED" -> "started"
           [] st.v = "DEPLOYED" -> "deployed"
           [] st.v = "ERROR" -> "error"
           [] st.v = "FINISHED" -> "finished"
           [] st.v = "TERMINATING" -> "terminating"
           [] st.v = "STOPPED" -> "stopped"
    ELSE st.v

\* C8: update_status posts tasks.status.update, with the status string, for
\* a Status member or for one of the eight status strings; for any other
\* value it raises ValueError and posts nothing.
C8_StatusValidated ==
    op = "update_status" =>
        LET st == call_args.status
            accepted == \/ st.t = "Status"
                        \/ st.t = "str" /\ st.v \in EightStatusStrings
        IN /\ Terminated
           /\ IF accepted
              THEN /\ trace = << Post("tasks.status.update",
                                      [id |-> "task_id", status |-> C8_StringForm(st)]) >>
                   /\ result # Raise("ValueError")
              ELSE /\ trace = << >>
                   /\ result = Raise("ValueError")

\* The member Status.FINISHED was passed and "finished" was posted.
C8_Witness ==
    /\ op = "update_status"
    /\ call_args.status = PyStatus("FINISHED")
    /\ Len(trace) = 1
    /\ trace[1].arg.data.status = "finished"
    /\ result = Return("None")

C9_Offending(fields) ==
    { i \in 1 .. Len(fields) : "field" \notin fields[i] \/ "payload" \notin fields[i] }

\* C9: set_fields posts tasks.data.set only if every object has the keys
\* 'field' and 'payload'; otherwise it raises KeyError naming the index of
\* the first offending object and its first missing key ('field' before
\* 'payload') and posts nothing.
C9_FieldsValidated ==
    op = "set_fields" =>
        LET fields == call_args.fields
            bad == C9_Offending(fields)
        IN /\ Terminated
           /\ IF bad = {}
              THEN /\ trace = << Post("tasks.data.set",
                                      [taskId |-> "task_id", fields |-> fields]) >>
                   /\ result.value # "KeyError"
              ELSE \E i \in bad :
                     /\ \A j \in bad : i <= j
                     /\ trace = << >>
                     /\ result = RaiseWith("KeyError",
                                   << i - 1, IF "field" \notin fields[i]
                                             THEN "field" ELSE "payload" >>)

\* A valid object is followed by one that has neither key.
C9_Witness ==
    /\ op = "set_fields"
    /\ call_args.fields = << { "field", "payload" }, { "append" } >>
    /\ result = RaiseWith("KeyError", << 1, "field" >>)
    /\ trace = << >>

\* C10: start raises ValueError and posts nothing when app_id and module_id
\* are both given or both None; otherwise the payload it posts holds exactly
\* one of the keys appId and moduleId, the given one with the given value.
C10_OneOfAppOrModule ==
    op = "start" =>
        LET a == call_args.app_id
            m == call_args.module_id
        IN /\ Terminated
           /\ IF (a = None) = (m = None)
              THEN /\ result = Raise("ValueError")
                   /\ trace = << >>
              ELSE /\ result # Raise("ValueError")
                   /\ call_args.redirect_requests # None => Len(trace) = 1
                   /\ \A r \in 1 .. Len(trace) :
                        /\ trace[r].kind = "post"
                        /\ trace[r].arg.method = "tasks.run.app"
                        /\ LET data == trace[r].arg.data IN
                           IF a # None
                           THEN /\ "appId" \in DOMAIN data
                                /\ data["appId"] = Get(a)
                                /\ "moduleId" \notin DOMAIN data
                           ELSE /\ "moduleId" \in DOMAIN data
                                /\ data["moduleId"] = Get(m)
                                /\ "appId" \notin DOMAIN data

\* start was called with a module_id only and posted tasks.run.app.
C10_Witness ==
    /\ op = "start"
    /\ call_args.app_id = None /\ call_args.module_id = Some(2)
    /\ Len(trace) = 1
    /\ "moduleId" \in DOMAIN trace[1].arg.data
    /\ result.kind = "return"

(***************************************************************************)
(* Claims about send_request and update_meta                               *)
(***************************************************************************)
\* C11: send_request raises TypeError, posting nothing, when data is not a
\* dict; otherwise it posts exactly one tasks.request.direct request with
\* task_id, the method as command, data as state, the context with
\* outside_request set, skipResponse and timeout, and hands retries and
\* raise_error to the HTTP client, whether or not that post succeeds.
C11_SendRequest ==
    op = "send_request" =>
        /\ Terminated
        /\ IF call_args.data_type # "dict"
           THEN /\ result = Raise("TypeError")
                /\ trace = << >>
           ELSE /\ Len(trace) = 1
                /\ trace[1].kind = "post"
                /\ trace[1].arg.method = "tasks.request.direct"
                /\ trace[1].arg.data.taskId = "task_id"
                /\ trace[1].arg.data.command = "method"
                /\ trace[1].arg.data.state = call_args.data_type
                /\ trace[1].arg.data.context["outside_request"]
                      = call_args.outside_request
                /\ trace[1].arg.data.skipResponse = call_args.skip_response
                /\ trace[1].arg.kwargs = [retries |-> call_args.retries,
                                          raise_error |-> call_args.raise_error]

\* C12: update_meta raises ValueError and posts no tasks.meta.update request
\* whenever exactly one of agent_storage_folder and relative_app_dir is
\* None, for every value of data.
C12_BothOrNone ==
    (op = "update_meta"
        /\ (call_args.agent_storage_folder = None) # (call_args.relative_app_dir = None))
        => /\ Terminated
           /\ result = Raise("ValueError")
           /\ trace = << >>

(***************************************************************************)
(* Claims about TaskApi.deploy_custom_model                                *)
(***************************************************************************)
\* The validations C13 lists, read off the arguments and the answers the
\* call has got so far.
C13_NoCheckpointIn(answer, checkpoints) ==
    /\ answer \in deploy.answered
    /\ \/ checkpoints = None
       \/ Len(Get(checkpoints)) = 0
       \/ /\ deploy.checkpoint_name # None
          /\ \A i \in 1 .. Len(Get(checkpoints)) :
                Get(checkpoints)[i].name # Get(deploy.checkpoint_name)

C13_ValidationFails ==
    \/ deploy.workspace_id.t # "int" \/ deploy.workspace_id.v <= 0
    \/ deploy.artifacts_dir.t # "str" \/ deploy.artifacts_dir.blank
    \/ deploy.workspace_info = "None"
    \/ /\ deploy.workspace_info = "found"
       /\ deploy.artifacts_dir.root
             \notin { "experiments", "yolov8_train", "mmdetection-3" }
    \/ C13_NoCheckpointIn("train_info", deploy.train_info)
    \/ deploy.modules = "none"
    \/ C13_NoCheckpointIn("experiment_info",
                          IF deploy.experiment_info = None THEN None
                          ELSE Some(Get(deploy.experiment_info).checkpoints))

C13_Posts == { r \in 1 .. Len(trace) : trace[r].kind = "post" }

\* C13: when a validation of deploy_custom_model fails the call ends with
\* ValueError, and whenever it ends with ValueError no application task has
\* been started and no deploy_from_api request has been sent.
C13_ValidationBeforeDeploy ==
    op = "deploy_custom_model" =>
        /\ C13_ValidationFails =>
              /\ pc \notin { "deploy_model_app", "wait_until_ready", "deploy_from_api" }
              /\ C13_Posts = {}
              /\ Terminated => result.value = "ValueError"
        /\ (Terminated /\ result.value = "ValueError") => C13_Posts = {}

\* A Train V2 call asked for a checkpoint the experiment does not have.
C13_Witness ==
    /\ op = "deploy_custom_model" /\ Terminated
    /\ deploy.artifacts_dir.root = "experiments"
    /\ deploy.checkpoint_name = Some("c3")
    /\ deploy.experiment_info # None
    /\ Get(deploy.experiment_info).checkpoints = << Checkpoint("c1"), Checkpoint("c2") >>
    /\ result = RaiseWith("ValueError", << "checkpoint" >>)
    /\ Len(trace) = 3

(***************************************************************************)
(* Claims about supervisely.io.json                                        *)
(***************************************************************************)
\* The files that hold a JSON document.
C14_IsJson(content) ==
    \/ content = << "{", "}" >>
    \/ content = << "{", "task_config", "}" >>
    \/ content \in { << "1" >>, << "1", "1" >>, << "1", "1", "1" >> }

\* C14: load_json_file raises IsADirectoryError for a directory, else
\* FileNotFoundError for a path that is not an existing file, else
\* RuntimeError for a content that cannot be decoded as JSON, and returns
\* the decoded value only when none of the three applies.
C14_FailureOrder ==
    op = "load_json_file" =>
        /\ result.kind \in { "raise", "return" }
        /\ IF call_args.kind = "directory"
           THEN result.kind = "raise" /\ result.value = "IsADirectoryError"
           ELSE IF call_args.kind # "file"
           THEN result.kind = "raise" /\ result.value = "FileNotFoundError"
           ELSE IF ~ C14_IsJson(call_args.content)
           THEN result.kind = "raise" /\ result.value = "RuntimeError"
           ELSE result.kind = "return"

\* The data is of the type the schema asks for.
C15_DataValid ==
    call_args.schema.type = "absent" \/ call_args.schema.type = call_args.data.t

\* The schema is a JSON Schema whose references resolve.
C15_SchemaUsable ==
    /\ call_args.schema.type \in { "absent", "object", "integer", "string" }
    /\ call_args.schema.ref = "absent"

\* C15 as stated: validate_json returns True for valid data and False
\* otherwise, raises only ValueError and only when raise_error is True and
\* the data is invalid, and never raises when raise_error is False.
C15_Original ==
    op = "validate_json" =>
        /\ result.kind = "return" =>
              result.value = (IF C15_DataValid THEN "True" ELSE "False")
        /\ result.kind = "raise" =>
              /\ result.value = "ValueError"
              /\ call_args.raise_error
        /\ ~ call_args.raise_error => result.kind = "return"

\* C15, amended: for a usable schema validate_json returns True for valid
\* data and otherwise False, or ValueError when raise_error is True, and
\* never raises when raise_error is False; for a schema that is invalid or
\* has an unresolvable reference the exception of jsonschema.validate
\* leaves the function whatever raise_error is.
C15_ValidateJson ==
    op = "validate_json" =>
        IF C15_SchemaUsable
        THEN /\ C15_DataValid => result = Return("True")
             /\ (~ C15_DataValid /\ ~ call_args.raise_error) => result = Return("False")
             /\ (~ C15_DataValid /\ call_args.raise_error) => result = Raise("ValueError")
        ELSE /\ result.kind = "raise"
             /\ result.value \in { "SchemaError", "RefResolutionError" }

\* Invalid data with raise_error False: False is returned.
C15_Witness ==
    /\ op = "validate_json"
    /\ C15_SchemaUsable
    /\ ~ C15_DataValid
    /\ ~ call_args.raise_error
    /\ result = Return("False")

\* prefix + k + suffix, None contributing nothing.
C16_NewKey(k) ==
    (IF call_args.prefix = None THEN << >> ELSE Get(call_args.prefix))
        \o k
        \o (IF call_args.suffix = None THEN << >> ELSE Get(call_args.suffix))

\* C16: modify_keys returns a dict in which every key k of data appears as
\* prefix + k + suffix with the value of k; it has as many entries as data,
\* data is left as it was, and with prefix = suffix = None the result
\* equals data.
C16_ModifyKeys ==
    op = "modify_keys" =>
        LET data == call_args.data
            new_data == result.detail[1]
        IN /\ result.kind = "return"
           /\ \A k \in DOMAIN data :
                /\ C16_NewKey(k) \in DOMAIN new_data
                /\ new_data[C16_NewKey(k)] = data[k]
           /\ Cardinality(DOMAIN new_data) = Cardinality(DOMAIN data)
           /\ call_args.data_after = data
           /\ (call_args.prefix = None /\ call_args.suffix = None) => new_data = data

\* Both affixes given, on a dict of two entries.
C16_Witness ==
    /\ op = "modify_keys"
    /\ call_args.prefix = Some(<< "a" >>)
    /\ call_args.suffix = Some(<< "b" >>)
    /\ DOMAIN call_args.data = { << "a" >>, << "a", "b" >> }
    /\ DOMAIN result.detail[1] = { << "a", "a", "b" >>, << "a", "a", "b", "b" >> }

(***************************************************************************)
(* Claims about the pacing of TaskApi.wait                                 *)
(***************************************************************************)
\* Polls and sleeps take turns, a poll first, and the sleeps so far add up
\* to their number times effective_wait_timeout.
C17_Alternating ==
    /\ polls - sleeps \in { 0, 1 }
    /\ (polls = sleeps + 1) <=> (last_event = "poll")
    /\ slept = sleeps * effective_wait_timeout

\* As C17 states it: WaitingTimeExceeded comes after exactly wait_attempts
\* sleeps, the last event being a sleep, and the reported total
\* wait_attempts * effective_wait_timeout is the time slept.
C17_PacedAsClaimed ==
    op = "wait" =>
        /\ C17_Alternating
        /\ result = Raise("WaitingTimeExceeded") =>
              /\ sleeps = wait_attempts
              /\ polls = wait_attempts
              /\ last_event = "sleep"
              /\ slept = wait_attempts * effective_wait_timeout

\* What holds: WaitingTimeExceeded comes after as many polls and sleeps as
\* range(wait_attempts) has members; for a wait_attempts that is not
\* negative that is wait_attempts, the last event is a sleep and the
\* reported total is the time slept; for a negative one nothing was polled
\* or slept.
C17_Paced ==
    op = "wait" =>
        /\ C17_Alternating
        /\ result = Raise("WaitingTimeExceeded") =>
              IF wait_attempts >= 0
              THEN /\ sleeps = wait_attempts
                   /\ polls = wait_attempts
                   /\ last_event = "sleep"
                   /\ slept = wait_attempts * effective_wait_timeout
              ELSE /\ sleeps = 0
                   /\ polls = 0
                   /\ last_event = "none"
                   /\ slept = 0

\* A sleep follows a poll and lasts effective_wait_timeout; a poll follows
\* the call or a sleep.
C17_Step ==
    /\ sleeps' # sleeps =>
          /\ last_event = "poll"
          /\ sleeps' = sleeps + 1
          /\ slept' - slept = effective_wait_timeout
    /\ polls' # polls =>
          /\ last_event # "poll"
          /\ polls' = polls + 1

\* C17 as stated: in TaskApi.wait status polls and sleeps alternate, every
\* sleep lasts effective_wait_timeout whatever the attempt, and when
\* WaitingTimeExceeded is raised exactly wait_attempts sleeps have been
\* performed, so that wait_attempts * effective_wait_timeout is the sum of
\* the sleeps.
C17_Original == [] C17_PacedAsClaimed /\ [][C17_Step]_vars

\* C17, amended: polls and sleeps alternate, every sleep lasts
\* effective_wait_timeout, and when WaitingTimeExceeded is raised with a
\* wait_attempts that is not negative exactly wait_attempts sleeps have
\* been performed and wait_attempts * effective_wait_timeout is their sum;
\* with a negative wait_attempts it is raised before any poll or sleep.
C17_SequentialPolling == [] C17_Paced /\ [][C17_Step]_vars

\* Two attempts of two seconds each ran out.
C17_Witness ==
    /\ op = "wait"
    /\ result = Raise("WaitingTimeExceeded")
    /\ wait_attempts = 2
    /\ effective_wait_timeout = 2
    /\ sleeps = 2
    /\ slept = 4

(***************************************************************************)
(* Claims about the order of the remote calls of TaskApi.upload_files      *)
(***************************************************************************)
C18_Checks == { r \in 1 .. Len(trace) : trace[r].kind = "check_existing_hashes" }

C18_RemoteCalls ==
    { r \in 1 .. Len(trace) : trace[r].kind \in { "check_existing_hashes", "post" } }

C18_ProgressCalls == { r \in 1 .. Len(trace) : trace[r].kind = "progress_cb" }

\* C18: in a call of upload_files with a non-empty input
\* check_existing_hashes is called exactly once and before any post, and
\* every add-by-hash request is posted before the first bulk.upload
\* request; with an empty input there is no remote call and progress_cb is
\* not invoked.
C18_RemoteOrder ==
    op = "upload_files" =>
        IF Len(abs_paths) = 0
        THEN C18_RemoteCalls = {} /\ C18_ProgressCalls = {}
        ELSE /\ Cardinality(C18_Checks) <= 1
             /\ (Terminated /\ result.kind = "return") => Cardinality(C18_Checks) = 1
             /\ \A p \in C18_RemoteCalls \ C18_Checks : \E c \in C18_Checks : c < p
             /\ \A a \in PostsOf("tasks.files.bulk.add-by-hash"),
                   u \in PostsOf("tasks.files.bulk.upload") : a < u

\* A call that posted both kinds of request and returned.
C18_Witness ==
    /\ op = "upload_files"
    /\ Terminated
    /\ result.kind = "return"
    /\ PostsOf("tasks.files.bulk.add-by-hash") # {}
    /\ PostsOf("tasks.files.bulk.upload") # {}
    /\ Cardinality(C18_Checks) = 1

(***************************************************************************)
(* Claims about the images import plugin                                   *)
(***************************************************************************)
\* The listed files with an image extension that belong to dataset ds.
C19_ValidFiles(ds) ==
    { i \in 1 .. Len(plugin.files_list) :
        plugin.files_list[i].ds = ds /\ plugin.files_list[i].ext = ".jpg" }

\* The items collected for dataset ds.
C19_Items(ds) ==
    UNION { { << e.value[i].key, e.value[i].value >> : i \in 1 .. Len(e.value) } :
            e \in { plugin.dataset_to_item[j] : j \in
                      { j \in 1 .. Len(plugin.dataset_to_item) :
                          plugin.dataset_to_item[j].key = ds } } }

\* C19: once the listed files are collected, every dataset holds as many items as
\* there are listed files with a valid image extension mapped to it, under
\* names that are unique within the dataset, whatever the random suffixes
\* were.
C19_NoFileLost ==
    (op = "add_images_to_project" /\ plugin.listed
        /\ plugin.idx = Len(plugin.files_list)) =>
        \A ds \in { "ds0", "ds1" } :
            /\ Cardinality(C19_Items(ds)) = Cardinality(C19_ValidFiles(ds))
            /\ \A x \in C19_Items(ds), y \in C19_Items(ds) : x[1] = y[1] => x = y

====
